---- MODULE Spec2Model ----
(***************************************************************************)
(* Model of Firmware_files/src/main.cpp: the ESP32 emergency alert button. *)
(*                                                                         *)
(* The firmware is one cooperative control flow (setup() then loop()).     *)
(* The model follows it position by position (pc); every blocking call is  *)
(* a step that lets time pass.  The environment (WiFi radio status, the    *)
(* two input pins) may change between any two steps.                       *)
(*                                                                         *)
(* Time.  The program reads each of its timestamps only in an expression   *)
(* millis() - lastX > limit.  The model stores the difference              *)
(* millis() - lastX itself (blinkElapsed, debounceElapsed, ...), and lets  *)
(* it saturate just above the largest limit it is compared with.           *)
(***************************************************************************)
EXTENDS Integers, Sequences, FiniteSets, TLC

\* ---- program constants (main.cpp) ----
debounceDelay == 500
blinkInterval == 300
serverBlinkInterval == 1000
serverCheckInterval == 10000
ResetHoldTime == 3000
ConnectPolls == 20
ReconnectPolls == 5
PollDelay == 500
DiscoveryAttempts == 3
DiscoveryWindow == 1000
ResetDebounceDelay == 100
ConnectSettleDelay == 100
ResetBlinkDelay == 1000
SaveDelay == 2000
DiscoveryPollDelay == 50

\* ---- bounds of the model ----
\* a press of the alert button is followed for at most this many toggles
MaxPressToggles == 2
\* a hold of the boot button is followed for at most this many factory resets
MaxHoldResets == 2
\* two falling edges of the alert button are followed for at most this many
\* toggles
MaxPairToggles == 2
\* datagrams the UDP socket holds unread
MaxQueued == 2
\* discovery broadcasts whose reply is still under way
MaxInFlight == 2

\* time that passes between two iterations of loop(), and in one turn of a
\* busy-wait
IdleSteps == {0, 500}
\* delay of a discovery reply within its wait window (polled every 50 ms)
ReplyDelays == {250}
\* duration of a blocking HTTP POST
HttpDelays == {250}
\* results of HTTPClient::POST: negative error, 0, or an HTTP status
HttpCodes == {-1, 0, 200}
\* text of a discovery reply
Addresses == {"10.0.0.5", "10.0.0.9"}
\* config.deviceName as saved by the provisioning form
DeviceNames == {"hall"}

\* what one wait window of a discovery attempt brings: nothing within
\* DiscoveryWindow, or a reply after some delay
WindowOutcomes ==
  {[got |-> FALSE, delay |-> DiscoveryWindow, addr |-> ""]} \cup
  {[got |-> TRUE, delay |-> d, addr |-> a] : d \in ReplyDelays, a \in Addresses}

VARIABLES
  pc,               \* position of the control flow
  config,           \* config.configured (RAM copy)
  eeprom,           \* configured flag of the Config stored in EEPROM
  alertState, ledState, isBlinking, serverConnected, resetTriggered,
  ledPin,           \* level last written to ledPin
  blinkElapsed,     \* millis() - lastBlinkTime
  debounceElapsed,  \* millis() - lastDebounceTime
  checkElapsed,     \* millis() - lastServerCheckTime
  pressTiming,      \* buttonPressStartTime # 0
  pressElapsed,     \* millis() - buttonPressStartTime
  startElapsed,     \* millis() - startTime (checkForResetCondition)
  attempts,         \* local of the two association polls
  caller,           \* who called reconnectWiFi: "loop" or "send"
  wifi,             \* WiFi.status() == WL_CONNECTED
  buttonLow,        \* digitalRead(buttonPin) == LOW
  bootLow,          \* digitalRead(bootButtonPin) == LOW
  \* ---- observation (history) variables ----
  tick,             \* what the loop tick just taken saw and did with the indicator
  reconnectResult,  \* outcome of the reconnectWiFi call of this loop iteration
  fallback,         \* enhancedWiFiConnect gave up in this boot
  ev,               \* operations performed by the last step of the program
  call,             \* the toggleAlertState call of this loop iteration
  pressToggles,     \* toggles invoked during the current press
  pressBeganUp,     \* the current press began in WifiUpServerUp
  heldFor,          \* for how long the boot pin has been LOW without a break
                    \* (-1: not LOW, or pressed at an unknown time)
  hold,             \* the boot pin since the program last read it
  pair,             \* falling edges of the alert button that are followed
  disc              \* improvedDiscoverServer() step by step, and the socket udp

vars == <<pc, config, eeprom, alertState, ledState, isBlinking, serverConnected,
          resetTriggered, ledPin, blinkElapsed, debounceElapsed, checkElapsed,
          pressTiming, pressElapsed, startElapsed, attempts, caller, wifi,
          buttonLow, bootLow, tick, reconnectResult, fallback, ev, call, pressToggles,
          pressBeganUp, heldFor, hold, pair, disc>>

\* ---- the program's memory as one record, so that the statements of a
\* ---- handler can be composed in the order the code runs them
Cur ==
  [config |-> config, eeprom |-> eeprom, alertState |-> alertState,
   ledState |-> ledState, isBlinking |-> isBlinking,
   serverConnected |-> serverConnected, resetTriggered |-> resetTriggered,
   ledPin |-> ledPin, blinkElapsed |-> blinkElapsed,
   debounceElapsed |-> debounceElapsed, checkElapsed |-> checkElapsed,
   pressTiming |-> pressTiming, pressElapsed |-> pressElapsed,
   heldFor |-> heldFor]

Apply(s) ==
  /\ config' = s.config
  /\ eeprom' = s.eeprom
  /\ alertState' = s.alertState
  /\ ledState' = s.ledState
  /\ isBlinking' = s.isBlinking
  /\ serverConnected' = s.serverConnected
  /\ resetTriggered' = s.resetTriggered
  /\ ledPin' = s.ledPin
  /\ blinkElapsed' = s.blinkElapsed
  /\ debounceElapsed' = s.debounceElapsed
  /\ checkElapsed' = s.checkElapsed
  /\ pressTiming' = s.pressTiming
  /\ pressElapsed' = s.pressElapsed
  /\ heldFor' = s.heldFor

\* a difference millis() - lastX, kept exact up to the limit it is compared
\* with and saturated just above it
Sat(a, limit) == IF a > limit THEN limit + 1 ELSE a

\* d milliseconds pass
Advance(s, d) ==
  [s EXCEPT !.blinkElapsed = Sat(@ + d, serverBlinkInterval),
            !.debounceElapsed = Sat(@ + d, debounceDelay),
            !.checkElapsed = Sat(@ + d, serverCheckInterval),
            !.pressElapsed = IF s.pressTiming THEN Sat(@ + d, ResetHoldTime) ELSE 0,
            !.heldFor = IF @ < 0 THEN @ ELSE Sat(@ + d, ResetHoldTime)]

\* the interval chosen without the test of config.configured
CurrentIntervalNoConfigTest(cfg, wifiUp, srv) ==
  IF ~srv THEN serverBlinkInterval ELSE blinkInterval

\* ---- loop(), lines 101-103: the interval handed to blinkLED
CurrentInterval(cfg, wifiUp, srv) ==
  IF ~cfg THEN blinkInterval
  ELSE IF wifiUp /\ ~srv THEN serverBlinkInterval
  ELSE blinkInterval

\* blinkLED(true) that ends the blinking and leaves the LED as it is
BlinkLEDStopKeepsLed(s, stop, ival) ==
  IF stop
  THEN [s EXCEPT !.isBlinking = FALSE]
  ELSE LET actualInterval == IF ival > 0 THEN ival ELSE blinkInterval
       IN IF s.isBlinking /\ s.blinkElapsed > actualInterval
          THEN [s EXCEPT !.blinkElapsed = 0, !.ledState = ~s.ledState,
                         !.ledPin = ~s.ledState]
          ELSE s

\* ---- blinkLED(stop, interval), lines 173-190
BlinkLED(s, stop, ival) ==
  IF stop
  THEN [s EXCEPT !.isBlinking = FALSE, !.ledState = s.alertState,
                 !.ledPin = s.alertState]
  ELSE LET actualInterval == IF ival > 0 THEN ival ELSE blinkInterval
       IN IF s.isBlinking /\ s.blinkElapsed > actualInterval
          THEN [s EXCEPT !.blinkElapsed = 0, !.ledState = ~s.ledState,
                         !.ledPin = ~s.ledState]
          ELSE s

\* ---- improvedDiscoverServer(), lines 304-332.  w[i] is what the i-th wait
\* ---- window brings.  One broadcast per attempt; the first reply ends the
\* ---- call; "" after DiscoveryAttempts empty windows.
RECURSIVE DiscoverFrom(_, _, _)
DiscoverFrom(attempt, w, elapsed) ==
  IF attempt >= DiscoveryAttempts
  THEN [ip |-> "", elapsed |-> elapsed, broadcasts |-> attempt]
  ELSE IF w[attempt + 1].got
       THEN [ip |-> w[attempt + 1].addr,
             elapsed |-> elapsed + w[attempt + 1].delay,
             broadcasts |-> attempt + 1]
       ELSE DiscoverFrom(attempt + 1, w, elapsed + DiscoveryWindow)

discoverServer(w) == DiscoverFrom(0, w, 0)

DiscoveryInputs == [1..DiscoveryAttempts -> WindowOutcomes]

\* every way a call of discoverServer() can end
DiscoveryCalls == {discoverServer(w) : w \in DiscoveryInputs}

\* ---- triggerReset(), lines 347-359 (up to the restart)
triggerReset(s) ==
  Advance([s EXCEPT !.eeprom = FALSE, !.ledPin = FALSE, !.resetTriggered = TRUE],
          ResetBlinkDelay)

\* ---- loop(), lines 107-117: the boot-button hold detector.  Returns the
\* ---- memory and whether triggerReset() is called.
ResetCheck(s, low) ==
  IF low /\ ~s.resetTriggered
  THEN IF ~s.pressTiming
       THEN [mem |-> [s EXCEPT !.pressTiming = TRUE, !.pressElapsed = 0],
             reset |-> FALSE]
       ELSE [mem |-> s, reset |-> s.pressElapsed > ResetHoldTime]
  ELSE [mem |-> [s EXCEPT !.pressTiming = FALSE, !.pressElapsed = 0],
        reset |-> FALSE]

\* ---- loop(), lines 128-148: what a periodic check does with the address
PeriodicResult(s, ip) ==
  IF ip = ""
  THEN IF s.serverConnected \/ ~s.isBlinking
       THEN [s EXCEPT !.serverConnected = FALSE, !.isBlinking = TRUE]
       ELSE s
  ELSE IF ~s.serverConnected
       THEN LET t == [s EXCEPT !.serverConnected = TRUE]
            IN IF t.isBlinking THEN BlinkLED(t, TRUE, 0) ELSE t
       ELSE s

\* ---- loop(), line 152: the guard of the alert button
ButtonFires(s, low) ==
  s.serverConnected /\ low /\ s.debounceElapsed > debounceDelay

\* ---- toggleAlertState(), lines 193-195
ToggleFlip(s) ==
  [s EXCEPT !.alertState = ~s.alertState, !.ledState = ~s.alertState,
            !.ledPin = ~s.alertState]


\* the revert after a failed reconnect without the LED write
RevertNoConnectivityNoLed(s) == [s EXCEPT !.alertState = ~s.alertState]

\* ---- sendAlert(), lines 205-207: revert after a failed reconnect
RevertNoConnectivity(s) ==
  [s EXCEPT !.alertState = ~s.alertState, !.ledState = ~s.alertState,
            !.ledPin = ~s.alertState]


\* the discovery-failure path without the start of blinking
RevertServerUnreachableNoBlink(s) ==
  [s EXCEPT !.serverConnected = FALSE, !.alertState = ~s.alertState]

\* ---- sendAlert(), lines 217-220: discovery failed
RevertServerUnreachable(s) ==
  [s EXCEPT !.serverConnected = FALSE, !.isBlinking = TRUE,
            !.alertState = ~s.alertState]


\* a POST result of 0 taken for a response
HttpRespondedZero(httpCode) == httpCode >= 0

\* ---- sendAlert(), line 240: did the POST get a response
HttpResponded(httpCode) == httpCode > 0


\* the revert after a failed POST without the LED write
RevertSendFailedNoLed(s) == [s EXCEPT !.alertState = ~s.alertState]

\* ---- sendAlert(), lines 252-254: revert after a failed POST
RevertSendFailed(s) ==
  [s EXCEPT !.alertState = ~s.alertState, !.ledState = ~s.alertState,
            !.ledPin = ~s.alertState]

\* the POST sent to one fixed address, whatever the discovery returned
PostUrlFixed(serverIP) == "http://10.0.0.5:5000/alert"

\* ---- sendAlert(), line 229: where the POST goes
PostUrl(serverIP) == "http://" \o serverIP \o ":5000/alert"

\* ---- sendAlert(), line 235: the form body of the POST
PostData(deviceName) == "name=" \o deviceName

\* ---- sendAlert(state), lines 228-238: the request that is sent; the
\* ---- parameter state is read at line 243 only, for the log
Request(serverIP, deviceName, state) ==
  [url |-> PostUrl(serverIP), body |-> PostData(deviceName)]

\* ---- sendAlert(), lines 226-257, once the address is known
SendTo(s, httpCode) ==
  LET t == [s EXCEPT !.serverConnected = TRUE]
  IN IF HttpResponded(httpCode) THEN t ELSE RevertSendFailed(t)

\* an association whose discovery failed, without the write of serverConnected
AfterAssociationKeepsServer(s, ip) ==
  IF ip = ""
  THEN [s EXCEPT !.isBlinking = TRUE]
  ELSE BlinkLED([s EXCEPT !.serverConnected = TRUE], TRUE, 0)

\* ---- reconnectWiFi() / enhancedWiFiConnect(): after an association that
\* ---- succeeded, lines 278-291 and 466-479
AfterAssociation(s, ip) ==
  IF ip = ""
  THEN [s EXCEPT !.serverConnected = FALSE, !.isBlinking = TRUE]
  ELSE BlinkLED([s EXCEPT !.serverConnected = TRUE], TRUE, 0)


\* a failed reconnect handled as the failed initial association is
ReconnectFailedClearsConfig(s) ==
  [s EXCEPT !.config = FALSE, !.eeprom = FALSE, !.serverConnected = FALSE]

\* ---- reconnectWiFi(), lines 293-296: the association failed
ReconnectFailed(s) == [s EXCEPT !.serverConnected = FALSE]


\* the exhausted association without the change of config.configured
ConnectFailedKeepsConfig(s) == [s EXCEPT !.serverConnected = FALSE]

\* ---- enhancedWiFiConnect(), lines 481-487: the association failed
ConnectFailed(s) ==
  [s EXCEPT !.config = FALSE, !.eeprom = FALSE, !.serverConnected = FALSE]

\* ---- handleSave(), lines 429-440 (up to the restart)
handleSave(s) == Advance([s EXCEPT !.config = TRUE, !.eeprom = TRUE], SaveDelay)

\* ---- static initialisers (lines 47-60) and setup(), lines 72-78
PowerOn(s) ==
  [s EXCEPT !.config = s.eeprom, !.alertState = FALSE, !.ledState = FALSE,
            !.isBlinking = FALSE, !.serverConnected = FALSE,
            !.resetTriggered = FALSE, !.ledPin = FALSE, !.blinkElapsed = 0,
            !.debounceElapsed = 0, !.checkElapsed = 0, !.pressTiming = FALSE,
            !.pressElapsed = 0]

\* ---- observation records ----
NoRequest == [url |-> "", body |-> ""]

NoCall ==
  [phase |-> "none", pre |-> FALSE, wifiAtStart |-> FALSE, solidAtStart |-> FALSE,
   reconnects |-> 0, discoveries |-> 0, found |-> FALSE,
   posts |-> 0, httpCode |-> 0, result |-> "none", pressBeganUp |-> FALSE,
   upAtCheck |-> FALSE, earlier |-> "", resolved |-> "", name |-> "",
   request |-> NoRequest]

\* how a discovery ended, as recorded in ev
Outcome(ip) == IF ip = "" THEN {"noreply"} ELSE {"reply"}

\* moves: changes of the boot pin since the program last read it; resets:
\* factory resets triggered during the present hold
NoHold == [moves |-> 0, resets |-> 0]

\* the program reads the boot pin
Sampled(h) == [h EXCEPT !.moves = 0]

\* the program calls triggerReset() during a hold that began at a known time
Counted(h, held) ==
  IF held < 0 THEN h
  ELSE [h EXCEPT !.resets = IF @ < MaxHoldResets THEN @ + 1 ELSE @]

\* edges: falling edges of the alert button that are followed (the first one
\* is read by line 152 at once, so that millis() - lastDebounceTime is the
\* time since that edge); toggles: toggleAlertState() calls since the first
NoPair == [edges |-> 0, toggles |-> 0]

\* line 152 let a toggle through
PairToggled(p) ==
  IF p.edges = 1 /\ p.toggles = 1 THEN NoPair
  ELSE IF p.edges = 0 THEN p
  ELSE [p EXCEPT !.toggles = IF @ < MaxPairToggles THEN @ + 1 ELSE @]

\* line 152 let no toggle through
PairSkipped(p) == IF p.toggles = 0 THEN NoPair ELSE p

\* ---- improvedDiscoverServer(), lines 304-332, and the global socket udp
\* ---- (line 33): position in the function, its locals attempt and
\* ---- millis() - start, the datagrams waiting unread in the socket (rx).
\* ---- Observation: broadcasts sent by this call, replies still under way
\* ---- (inFlight), a reply that arrived while this call was running (arrived).
NoDisc ==
  [pc |-> "idle", attempt |-> 0, waited |-> 0, rx |-> <<>>, result |-> "",
   broadcasts |-> 0, inFlight |-> 0, arrived |-> FALSE]

NoTick ==
  [seen |-> FALSE, config |-> FALSE, wifi |-> FALSE, server |-> FALSE,
   blinking |-> FALSE, interval |-> 0, found |-> ""]

Init ==
  /\ pc = "off"
  /\ eeprom \in BOOLEAN
  /\ config = FALSE
  /\ alertState = FALSE /\ ledState = FALSE /\ isBlinking = FALSE
  /\ serverConnected = FALSE /\ resetTriggered = FALSE /\ ledPin = FALSE
  /\ blinkElapsed = 0 /\ debounceElapsed = 0 /\ checkElapsed = 0
  /\ pressTiming = FALSE /\ pressElapsed = 0 /\ startElapsed = 0
  /\ attempts = 0 /\ caller = "loop"
  /\ wifi = FALSE
  /\ buttonLow \in BOOLEAN
  /\ bootLow \in BOOLEAN
  /\ tick = NoTick /\ reconnectResult = "none" /\ fallback = FALSE
  /\ ev = {} /\ call = NoCall
  /\ pressToggles = 0 /\ pressBeganUp = FALSE
  /\ heldFor = -1 /\ hold = NoHold /\ pair = NoPair
  /\ disc = NoDisc

\* ---- power-on or restart: setup(), lines 63-81, up to the first read of
\* ---- the boot pin in checkForResetCondition() (lines 335-337)
Boot ==
  /\ pc = "off"
  /\ IF bootLow
     THEN /\ Apply(Advance(PowerOn(Cur), ResetDebounceDelay))
          /\ pc' = "resetHold"
     ELSE /\ Apply(PowerOn(Cur))
          /\ pc' = "setupMode"
  /\ startElapsed' = 0
  /\ wifi' = FALSE
  /\ attempts' = 0 /\ caller' = "loop"
  /\ tick' = NoTick /\ reconnectResult' = "none" /\ fallback' = FALSE
  /\ ev' = {} /\ call' = NoCall
  /\ hold' = Sampled(hold)
  /\ pair' = NoPair
  /\ UNCHANGED <<buttonLow, bootLow, pressToggles, pressBeganUp>>
  /\ UNCHANGED disc

\* ---- checkForResetCondition(), lines 338-343: one turn of the busy-wait
ResetHold ==
  /\ pc = "resetHold"
  /\ IF ~bootLow
     THEN /\ pc' = "setupMode"
          /\ Apply(Cur)
          /\ startElapsed' = 0
          /\ hold' = Sampled(hold)
     ELSE IF startElapsed > ResetHoldTime
          THEN /\ Apply(triggerReset(Cur))
               /\ pc' = "off"
               /\ startElapsed' = 0
               /\ hold' = Counted(Sampled(hold), heldFor)
          ELSE \E d \in IdleSteps \ {0} :
                 /\ Apply(Advance(Cur, d))
                 /\ startElapsed' = Sat(startElapsed + d, ResetHoldTime)
                 /\ pc' = pc
                 /\ hold' = Sampled(hold)
  /\ UNCHANGED <<attempts, caller, wifi, buttonLow, bootLow, tick, reconnectResult,
                 fallback, ev, call, pressToggles, pressBeganUp>>
  /\ UNCHANGED pair
  /\ UNCHANGED disc

\* ---- setup(), lines 83-93, and the start of enhancedWiFiConnect(),
\* ---- lines 450-454
SetupMode ==
  /\ pc = "setupMode"
  /\ IF ~config
     THEN /\ Apply([Cur EXCEPT !.isBlinking = TRUE])
          /\ pc' = "loop"
     ELSE /\ Apply(Advance([Cur EXCEPT !.isBlinking = TRUE], ConnectSettleDelay))
          /\ pc' = "connectPoll"
  /\ wifi' = FALSE
  /\ attempts' = 0
  /\ UNCHANGED <<startElapsed, caller, buttonLow, bootLow, tick, reconnectResult,
                 fallback, ev, call, pressToggles, pressBeganUp>>
  /\ UNCHANGED <<hold, pair>>
  /\ UNCHANGED disc

\* ---- enhancedWiFiConnect(), lines 455-459: one turn of the association poll
ConnectPoll ==
  /\ pc = "connectPoll"
  /\ IF ~wifi /\ attempts < ConnectPolls
     THEN /\ Apply(Advance(Cur, PollDelay))
          /\ attempts' = attempts + 1
          /\ pc' = pc
     ELSE /\ Apply(Cur)
          /\ attempts' = attempts
          /\ pc' = "connectCheck"
  /\ UNCHANGED <<startElapsed, caller, wifi, buttonLow, bootLow, tick,
                 reconnectResult, fallback, ev, call, pressToggles, pressBeganUp>>
  /\ UNCHANGED <<hold, pair>>
  /\ UNCHANGED disc

\* ---- enhancedWiFiConnect(), lines 462-488
ConnectCheck ==
  /\ pc = "connectCheck"
  /\ IF wifi
     THEN \E r \in DiscoveryCalls :
               /\ Apply(Advance(AfterAssociation(Cur, r.ip), r.elapsed))
               /\ ev' = {"associated", "discover"} \cup Outcome(r.ip)
               /\ fallback' = fallback
               /\ attempts' = 0
     ELSE /\ Apply(ConnectFailed(Cur))
          /\ ev' = {}
          /\ fallback' = TRUE
          /\ attempts' = attempts
  /\ pc' = "loop"
  /\ UNCHANGED <<startElapsed, caller, wifi, buttonLow, bootLow, tick,
                 reconnectResult, call, pressToggles, pressBeganUp>>
  /\ UNCHANGED <<hold, pair>>
  /\ UNCHANGED disc

\* ---- reconnectWiFi(), lines 262-266: before the association poll
ReconnectStart(s) == [s EXCEPT !.isBlinking = TRUE]

Min(a, b) == IF a < b THEN a ELSE b

\* ---- loop(), lines 99-149 and 157-163: indicator, hold detector, and the
\* ---- periodic check or the start of the periodic reconnect
LoopTop ==
  /\ pc = "loop"
  /\ LET ival == CurrentInterval(config, wifi, serverConnected)
         s1 == IF isBlinking THEN BlinkLED(Cur, FALSE, ival) ELSE Cur
         rc == ResetCheck(s1, bootLow)
         s2 == rc.mem
         tk == [seen |-> TRUE, config |-> config, wifi |-> wifi,
                server |-> serverConnected, blinking |-> isBlinking,
                interval |-> IF isBlinking THEN ival ELSE 0, found |-> ""]
     IN /\ IF rc.reset
           THEN /\ Apply(triggerReset(s2))
                /\ pc' = "off"
                /\ ev' = {"reset"}
                /\ tick' = tk
                /\ hold' = Counted(Sampled(hold), heldFor)
                /\ UNCHANGED <<attempts, caller>>
           ELSE IF s2.config /\ wifi
           THEN IF s2.checkElapsed > serverCheckInterval
                THEN \E r \in DiscoveryCalls :
                       LET s3 == PeriodicResult([s2 EXCEPT !.checkElapsed = 0], r.ip)
                       IN /\ Apply(Advance(s3, r.elapsed))
                          /\ ev' = {"periodic", "discover"} \cup Outcome(r.ip)
                          /\ tick' = [tk EXCEPT !.found = r.ip]
                          /\ hold' = Sampled(hold)
                          /\ pc' = "buttonCheck"
                          /\ UNCHANGED <<attempts, caller>>
                ELSE /\ Apply(s2)
                     /\ pc' = "buttonCheck"
                     /\ ev' = {}
                     /\ tick' = tk
                     /\ hold' = Sampled(hold)
                     /\ UNCHANGED <<attempts, caller>>
           ELSE IF s2.config /\ ~wifi /\ s2.checkElapsed > serverCheckInterval
           THEN /\ Apply(ReconnectStart([s2 EXCEPT !.checkElapsed = 0]))
                /\ attempts' = 0
                /\ caller' = "loop"
                /\ ev' = {"reconnect"}
                /\ pc' = "reconnectPoll"
                /\ tick' = tk
                /\ hold' = Sampled(hold)
           ELSE /\ Apply(s2)
                /\ pc' = "loopEnd"
                /\ ev' = {}
                /\ tick' = tk
                /\ hold' = Sampled(hold)
                /\ UNCHANGED <<attempts, caller>>
  /\ UNCHANGED <<startElapsed, wifi, buttonLow, bootLow, fallback, call,
                 reconnectResult, pressToggles, pressBeganUp>>
  /\ UNCHANGED pair
  /\ UNCHANGED disc

\* ---- loop(), lines 152-156, toggleAlertState(), lines 192-198, and the
\* ---- WiFi test that opens sendAlert(), lines 201-203
ButtonCheck ==
  /\ pc = "buttonCheck"
  /\ IF ButtonFires(Cur, buttonLow)
     THEN LET s1 == ToggleFlip([Cur EXCEPT !.debounceElapsed = 0])
          IN /\ call' = [NoCall EXCEPT !.phase = "running", !.pre = alertState,
                                       !.wifiAtStart = wifi,
                                       !.solidAtStart = ~isBlinking,
                                       !.reconnects = IF wifi THEN 0 ELSE 1,
                                       !.pressBeganUp = pressBeganUp,
                                       !.upAtCheck = config /\ wifi /\ serverConnected,
                                       !.earlier = tick.found]
             /\ pressToggles' = Min(pressToggles + 1, MaxPressToggles)
             /\ pair' = PairToggled(pair)
             /\ IF wifi
                THEN /\ Apply(s1)
                     /\ ev' = {"toggle"}
                     /\ pc' = "sendDiscover"
                     /\ UNCHANGED <<attempts, caller>>
                ELSE /\ Apply(ReconnectStart(s1))
                     /\ ev' = {"toggle", "reconnect"}
                     /\ attempts' = 0
                     /\ caller' = "send"
                     /\ pc' = "reconnectPoll"
     ELSE /\ Apply(Cur)
          /\ pc' = "loopEnd"
          /\ ev' = {}
          /\ pair' = PairSkipped(pair)
          /\ UNCHANGED <<attempts, caller, call, pressToggles>>
  /\ tick' = NoTick
  /\ UNCHANGED <<startElapsed, wifi, buttonLow, bootLow, reconnectResult,
                 fallback, pressBeganUp>>
  /\ UNCHANGED hold
  /\ UNCHANGED disc

\* ---- reconnectWiFi(), lines 267-271: one turn of the association poll
ReconnectPoll ==
  /\ pc = "reconnectPoll"
  /\ IF ~wifi /\ attempts < ReconnectPolls
     THEN /\ Apply(Advance(Cur, PollDelay))
          /\ attempts' = attempts + 1
          /\ pc' = pc
     ELSE /\ Apply(Cur)
          /\ attempts' = attempts
          /\ pc' = "reconnectCheck"
  /\ tick' = NoTick
  /\ ev' = {}
  /\ UNCHANGED <<startElapsed, caller, wifi, buttonLow, bootLow,
                 reconnectResult, fallback, call, pressToggles, pressBeganUp>>
  /\ UNCHANGED <<hold, pair>>
  /\ UNCHANGED disc

\* ---- reconnectWiFi(), lines 273-297, and what its caller does with the
\* ---- result: loop() drops it (line 162), sendAlert() reverts and returns
\* ---- on failure (lines 203-210)
ReconnectCheck ==
  /\ pc = "reconnectCheck"
  /\ IF wifi
     THEN \E r \in DiscoveryCalls :
               /\ Apply(Advance(AfterAssociation(Cur, r.ip), r.elapsed))
               /\ ev' = {"associated", "discover"} \cup Outcome(r.ip)
               /\ reconnectResult' = "ok"
               /\ call' = IF caller = "send"
                          THEN [call EXCEPT !.earlier = r.ip] ELSE call
               /\ pc' = IF caller = "send" THEN "sendDiscover" ELSE "loopEnd"
     ELSE /\ ev' = {}
          /\ reconnectResult' = "failed"
          /\ pc' = "loopEnd"
          /\ IF caller = "send"
             THEN /\ Apply(RevertNoConnectivity(ReconnectFailed(Cur)))
                  /\ call' = [call EXCEPT !.phase = "returned",
                                          !.result = "NoConnectivity"]
             ELSE /\ Apply(ReconnectFailed(Cur))
                  /\ call' = call
  /\ attempts' = 0
  /\ caller' = "loop"
  /\ UNCHANGED <<startElapsed, wifi, buttonLow, bootLow, tick, fallback,
                 pressToggles, pressBeganUp>>
  /\ UNCHANGED <<hold, pair>>
  /\ UNCHANGED disc

\* ---- sendAlert(), lines 213-258: discovery for the send, then the POST
SendDiscover ==
  /\ pc = "sendDiscover"
  /\ \E r \in DiscoveryCalls, httpCode \in HttpCodes, hd \in HttpDelays,
        deviceName \in DeviceNames :
          IF r.ip = ""
          THEN /\ Apply(Advance(RevertServerUnreachable(Cur), r.elapsed))
               /\ ev' = {"discover", "noreply"}
               /\ call' = [call EXCEPT !.phase = "returned",
                                       !.discoveries = @ + 1,
                                       !.result = "ServerUnreachable"]
          ELSE /\ Apply(Advance(SendTo(Cur, httpCode), r.elapsed + hd))
               /\ ev' = {"discover", "reply", "send"}
               /\ call' = [call EXCEPT !.phase = "returned",
                                       !.discoveries = @ + 1,
                                       !.found = TRUE,
                                       !.resolved = r.ip,
                                       !.name = deviceName,
                                       !.request = Request(r.ip, deviceName,
                                                           alertState),
                                       !.posts = @ + 1,
                                       !.httpCode = httpCode,
                                       !.result = IF HttpResponded(httpCode)
                                                  THEN "ok" ELSE "SendFailed"]
  /\ pc' = "loopEnd"
  /\ UNCHANGED <<startElapsed, attempts, caller, wifi, buttonLow, bootLow, tick,
                 reconnectResult, fallback, pressToggles, pressBeganUp>>
  /\ UNCHANGED <<hold, pair>>
  /\ UNCHANGED disc

\* ---- loop(), lines 166-171: the captive portal while unprovisioned (a
\* ---- client may post the form: handleSave() restarts the device), then
\* ---- the time until the next iteration
LoopEnd ==
  /\ pc = "loopEnd"
  /\ \E save \in BOOLEAN, d \in IdleSteps :
       IF ~config /\ save
       THEN /\ Apply(handleSave(Cur))
            /\ pc' = "off"
       ELSE /\ Apply(Advance(Cur, d))
            /\ pc' = "loop"
  /\ tick' = NoTick /\ ev' = {} /\ call' = NoCall /\ reconnectResult' = "none"
  /\ UNCHANGED <<startElapsed, attempts, caller, wifi, buttonLow, bootLow,
                 fallback, pressToggles, pressBeganUp>>
  /\ UNCHANGED <<hold, pair>>
  /\ UNCHANGED disc

\* ---- the environment ----
Running == pc \notin {"off", "resetHold", "setupMode"}

\* the radio gains or loses its association (possible once WiFi.begin ran)
WifiChange ==
  /\ Running
  /\ config \/ fallback
  /\ wifi' = ~wifi
  /\ UNCHANGED <<pc, config, eeprom, alertState, ledState, isBlinking,
                 serverConnected, resetTriggered, ledPin, blinkElapsed,
                 debounceElapsed, checkElapsed, pressTiming, pressElapsed,
                 startElapsed, attempts, caller, buttonLow, bootLow, tick,
                 reconnectResult, fallback, ev, call, pressToggles, pressBeganUp>>
  /\ UNCHANGED <<heldFor, hold, pair>>
  /\ UNCHANGED disc

\* the level of buttonPin changes
ButtonMoves ==
  /\ buttonLow' = ~buttonLow
  /\ pressToggles' = 0
  /\ pressBeganUp' = (~buttonLow /\ Running /\ config /\ wifi /\ serverConnected)
  /\ UNCHANGED <<pc, config, eeprom, alertState, ledState, isBlinking,
                 serverConnected, resetTriggered, ledPin, blinkElapsed,
                 debounceElapsed, checkElapsed, pressTiming, pressElapsed,
                 startElapsed, attempts, caller, wifi, bootLow, tick,
                 reconnectResult, fallback, ev, call>>
  /\ UNCHANGED <<heldFor, hold>>
  /\ UNCHANGED disc

\* the alert button is pressed or released
ButtonChange ==
  /\ ButtonMoves
  /\ UNCHANGED pair

\* the boot button is pressed or released
BootPinChange ==
  /\ bootLow' = ~bootLow
  /\ UNCHANGED <<pc, config, eeprom, alertState, ledState, isBlinking,
                 serverConnected, resetTriggered, ledPin, blinkElapsed,
                 debounceElapsed, checkElapsed, pressTiming, pressElapsed,
                 startElapsed, attempts, caller, wifi, buttonLow, tick,
                 reconnectResult, fallback, ev, call, pressToggles, pressBeganUp>>
  /\ UNCHANGED <<heldFor, hold, pair>>
  /\ UNCHANGED disc

\* the boot button is operated around power-on only
BootPinAtPowerOn ==
  /\ pc \in {"off", "resetHold"}
  /\ BootPinChange

\* The device with its whole environment (about 10 million states; the
\* formulas of C1, C5-C9, C11, C12, C16 and C20 below hold under it as well).
NextFull ==
  \/ Boot \/ ResetHold \/ SetupMode \/ ConnectPoll \/ ConnectCheck
  \/ LoopTop \/ ButtonCheck \/ ReconnectPoll \/ ReconnectCheck \/ SendDiscover
  \/ LoopEnd
  \/ WifiChange \/ ButtonChange \/ BootPinChange

SpecFull == Init /\ [][NextFull]_vars

\* The device while nobody touches the boot button once setup() is past
\* checkForResetCondition(): WiFi and the alert button change at any time,
\* the boot button before and during the hold test of setup() only.
Next ==
  \/ Boot \/ ResetHold \/ SetupMode \/ ConnectPoll \/ ConnectCheck
  \/ LoopTop \/ ButtonCheck \/ ReconnectPoll \/ ReconnectCheck \/ SendDiscover
  \/ LoopEnd
  \/ WifiChange \/ ButtonChange \/ BootPinAtPowerOn

Spec == Init /\ [][Next]_vars

\* ---- the boot button followed in time ----

\* a blocking call (a discovery, or the polls of an association) has run
\* since the program last read the boot pin
Blocked ==
  \/ "discover" \in ev
  \/ (pc \in {"connectPoll", "connectCheck", "reconnectPoll", "reconnectCheck"}
        /\ attempts > 0)

\* The boot button is pressed or released at a known time.  Between two
\* reads that no blocking call separates the program runs for microseconds
\* only, so the pin changes at most once there; a blocking call leaves room
\* for a release and a new press.
BootPinTimed ==
  /\ hold.moves < (IF Blocked THEN 2 ELSE 1)
  /\ bootLow' = ~bootLow
  /\ heldFor' = IF bootLow THEN -1 ELSE 0
  /\ hold' = [moves |-> hold.moves + 1, resets |-> 0]
  /\ UNCHANGED <<pc, config, eeprom, alertState, ledState, isBlinking,
                 serverConnected, resetTriggered, ledPin, blinkElapsed,
                 debounceElapsed, checkElapsed, pressTiming, pressElapsed,
                 startElapsed, attempts, caller, wifi, buttonLow, tick,
                 reconnectResult, fallback, ev, call, pressToggles, pressBeganUp,
                 pair>>
  /\ UNCHANGED disc

\* The device with its boot button followed in time and the alert button
\* left alone (no toggle, so no sendAlert()).
InitHold == Init /\ ~buttonLow

NextHold ==
  \/ Boot \/ ResetHold \/ SetupMode \/ ConnectPoll \/ ConnectCheck
  \/ LoopTop \/ ButtonCheck \/ ReconnectPoll \/ ReconnectCheck \/ LoopEnd
  \/ WifiChange \/ BootPinTimed

SpecHold == InitHold /\ [][NextHold]_vars

\* ---- the alert button followed in time ----

\* The alert button is pressed or released, and falling edges made while
\* config.configured, WiFi connected and serverConnected hold are followed:
\* a first one made right before the test of line 152 that lets it through,
\* and a second one made less than debounceDelay after the first.
ButtonEdge ==
  /\ ButtonMoves
  /\ pair' =
       IF buttonLow
       THEN (IF pair.edges = 1 /\ pair.toggles = 1 THEN pair ELSE NoPair)
       ELSE IF ~(config /\ wifi /\ serverConnected) THEN NoPair
       ELSE IF pair.edges = 1 /\ pair.toggles = 1
               /\ debounceElapsed < debounceDelay
            THEN [pair EXCEPT !.edges = 2]
       ELSE IF pc = "buttonCheck" /\ ButtonFires(Cur, TRUE)
            THEN [edges |-> 1, toggles |-> 0]
       ELSE NoPair

NextEdges ==
  \/ Boot \/ ResetHold \/ SetupMode \/ ConnectPoll \/ ConnectCheck
  \/ LoopTop \/ ButtonCheck \/ ReconnectPoll \/ ReconnectCheck \/ SendDiscover
  \/ LoopEnd
  \/ WifiChange \/ ButtonEdge \/ BootPinAtPowerOn

SpecEdges == Init /\ [][NextEdges]_vars

\* ---- discoverServer() step by step ----

\* everything but disc
device ==
  <<pc, config, eeprom, alertState, ledState, isBlinking, serverConnected,
    resetTriggered, ledPin, blinkElapsed, debounceElapsed, checkElapsed,
    pressTiming, pressElapsed, startElapsed, attempts, caller, wifi,
    buttonLow, bootLow, tick, reconnectResult, fallback, ev, call, pressToggles,
    pressBeganUp, heldFor, hold, pair>>

\* ---- a call of discoverServer() begins (lines 300-306); the socket keeps
\* ---- what it holds
DiscoverCall ==
  /\ disc.pc \in {"idle", "done"}
  /\ disc' = [disc EXCEPT !.pc = "send", !.attempt = 0, !.waited = 0,
                          !.result = "", !.broadcasts = 0, !.arrived = FALSE]
  /\ UNCHANGED device

\* ---- lines 308-315: the head of the for loop and the broadcast of one
\* ---- attempt; lines 330-331 when the attempts are used up
DiscoverBroadcast ==
  /\ disc.pc = "send"
  /\ disc' = IF disc.attempt < DiscoveryAttempts
             THEN [disc EXCEPT !.pc = "wait", !.waited = 0,
                               !.broadcasts = @ + 1,
                               !.inFlight = Min(@ + 1, MaxInFlight)]
             ELSE [disc EXCEPT !.pc = "done", !.result = ""]
  /\ UNCHANGED device

\* ---- lines 316-328: one turn of the wait loop
DiscoverPoll ==
  /\ disc.pc = "wait"
  /\ disc' = IF disc.waited < DiscoveryWindow
             THEN IF disc.rx # <<>>
                  THEN [disc EXCEPT !.pc = "done", !.result = Head(disc.rx),
                                    !.rx = Tail(disc.rx)]
                  ELSE [disc EXCEPT !.waited = @ + DiscoveryPollDelay]
             ELSE [disc EXCEPT !.pc = "send", !.attempt = @ + 1]
  /\ UNCHANGED device

\* the call is in one of its wait windows (or at the broadcast that opens one)
InWindow(d) ==
  d.pc = "wait" \/ (d.pc = "send" /\ d.attempt < DiscoveryAttempts)

\* the server's reply to one of the broadcasts reaches the socket
ReplyArrives ==
  /\ disc.inFlight > 0
  /\ Len(disc.rx) < MaxQueued
  /\ \E a \in Addresses :
       disc' = [disc EXCEPT !.rx = Append(@, a), !.inFlight = @ - 1,
                           !.arrived = @ \/ InWindow(disc)]
  /\ UNCHANGED device

\* discoverServer() called again and again, on a device that is otherwise
\* at rest
InitDiscover == Init /\ ~eeprom /\ ~buttonLow /\ ~bootLow

NextDiscover ==
  DiscoverCall \/ DiscoverBroadcast \/ DiscoverPoll \/ ReplyArrives

SpecDiscover == InitDiscover /\ [][NextDiscover]_vars

\* ======================= the claims =======================

Returned == call.phase = "returned"
WifiUpServerUp == config /\ wifi /\ serverConnected
CoreOps == {"discover", "reconnect", "toggle", "send"}

\* C1: when toggleAlertState() returns, alertState is the negation of its
\* pre-call value exactly if the POST was sent and returned a response
\* (httpCode > 0); on every failure path (reconnect failed, discovery failed,
\* no response) it is the pre-call value.
C1_ToggleCommitsIffResponse ==
  Returned =>
    /\ (alertState = ~call.pre) <=> (call.posts = 1 /\ call.httpCode > 0)
    /\ (call.result \in {"NoConnectivity", "ServerUnreachable", "SendFailed"}
          => alertState = call.pre)
    /\ (call.result = "ok" => call.posts = 1 /\ call.httpCode > 0)

\* a toggle that reconnected first and then got no response has returned
C1_Witness ==
  /\ Returned /\ call.reconnects = 1 /\ call.posts = 1 /\ call.httpCode = 0
  /\ alertState = call.pre

\* C2 (as claimed): at every loop-iteration boundary, WifiUpServerUp implies
\* a Solid indicator: not blinking and the LED at alertState.
C2_SolidWhenServerUp ==
  (pc = "loop" /\ WifiUpServerUp) => (~isBlinking /\ ledPin = alertState)

\* C3 (as claimed): one continuous press of the alert button causes at most
\* one toggleAlertState() invocation.
C3_OneTogglePerPress == pressToggles <= 1

\* C4 (as claimed): a toggle is invoked only for a press that began in
\* WifiUpServerUp, and only when config.configured, WiFi connected and
\* serverConnected all hold at the button check.
C4_PressesDropped ==
  call.phase # "none" => (call.pressBeganUp /\ call.upAtCheck)

\* C5: a toggle that starts with WiFi connected and a Solid indicator, finds
\* the server and gets no response to the POST returns with alertState and
\* the LED at the pre-call alertState, not blinking, serverConnected true.
C5_SendFailureRestoresSolid ==
  (Returned /\ call.wifiAtStart /\ call.solidAtStart /\ call.found
     /\ call.posts = 1 /\ call.httpCode <= 0)
  => (/\ alertState = call.pre
      /\ ledPin = call.pre /\ ledState = call.pre
      /\ ~isBlinking
      /\ serverConnected)

C5_Witness ==
  /\ Returned /\ call.wifiAtStart /\ call.solidAtStart /\ call.found
  /\ call.posts = 1 /\ call.httpCode = -1 /\ call.pre = TRUE
  /\ ledPin = TRUE

C7_ReconnectFailureInSend ==
  /\ call.phase # "none" => call.reconnects = (IF call.wifiAtStart THEN 0 ELSE 1)
  /\ (Returned /\ call.result = "NoConnectivity")
     => (/\ ~call.wifiAtStart /\ call.reconnects = 1
         /\ call.discoveries = 0 /\ call.posts = 0 /\ ev = {}
         /\ alertState = call.pre
         /\ ledPin = call.pre /\ ledState = call.pre
         /\ ~serverConnected
         /\ isBlinking)

C7_Witness ==
  /\ Returned /\ call.result = "NoConnectivity" /\ call.solidAtStart
  /\ call.pre = TRUE /\ ledPin = TRUE

\* C8: once enhancedWiFiConnect() has given up, config.configured is false
\* in memory and in EEPROM, and until the restart the core does no
\* discovery, reconnect, toggle or send, and alertState stays as setup() set it.
C8_FallbackStopsTheCore ==
  (fallback /\ pc # "off")
  => (/\ ~config /\ ~eeprom
      /\ pc \in {"loop", "loopEnd"}
      /\ ev \cap CoreOps = {}
      /\ call.phase = "none"
      /\ alertState = FALSE)

\* the 20 polls were used up, and WiFi came up afterwards
C8_Witness ==
  fallback /\ attempts = ConnectPolls /\ pc = "loopEnd" /\ wifi /\ buttonLow

\* C9: reconnectWiFi() leaves config.configured alone in memory and in
\* EEPROM, and a failed one ends with serverConnected false and the
\* indicator blinking; config.configured goes to false in memory only in the
\* failed initial association (or when setup() loads it), in EEPROM only
\* there and in triggerReset().
C9_OnlyConnectUnprovisions ==
  [][/\ (pc \in {"reconnectPoll", "reconnectCheck"}
           => (config' = config /\ eeprom' = eeprom))
     /\ ((config /\ ~config') => (pc = "connectCheck" \/ pc = "off"))
     /\ ((eeprom /\ ~eeprom')
           => (pc = "connectCheck"
               \/ (pc \in {"resetHold", "loop"} /\ pc' = "off")))
     /\ ((pc = "reconnectCheck" /\ reconnectResult' = "failed")
           => (~serverConnected' /\ isBlinking'))]_vars

C9_Witness ==
  reconnectResult = "failed" /\ config /\ eeprom /\ ~serverConnected /\ isBlinking

\* C10 (as claimed): on every loop tick taken while unprovisioned or with
\* WiFi not connected the indicator is blinking with the 300 ms interval.
C10_FastBlinkWhenDown ==
  (tick.seen /\ (~tick.config \/ ~tick.wifi))
  => (tick.blinking /\ tick.interval = blinkInterval)

\* C11: an association (connect or reconnect) that succeeds and whose
\* discovery gets no reply in any of its attempts ends in WifiUpNoServer
\* (config.configured, WiFi connected, serverConnected false); and every loop
\* tick taken with config.configured, WiFi connected and serverConnected
\* false finds the indicator blinking and uses the 1000 ms interval.
C11_SlowBlinkWhenNoServer ==
  /\ [](tick.seen /\ tick.config /\ tick.wifi /\ ~tick.server
          => tick.blinking /\ tick.interval = serverBlinkInterval)
  /\ [][(pc \in {"connectCheck", "reconnectCheck"}
           /\ {"associated", "noreply"} \subseteq ev')
        => (config' /\ wifi' /\ ~serverConnected' /\ isBlinking')]_vars

\* a reconnect from a state with the server up found no server, and the
\* next loop tick blinks slowly
C11_Witness ==
  /\ tick.seen /\ tick.config /\ tick.wifi /\ ~tick.server
  /\ tick.interval = serverBlinkInterval /\ alertState

\* C12: a toggle sends at most one HTTP request, and only after the
\* discovery of its own sendAlert() call returned an address; the request
\* goes to that address, also when an earlier discovery of the same loop
\* iteration (periodic check, or the reconnect inside sendAlert()) returned
\* another one.
C12_SendUsesFreshAddress ==
  Returned =>
    /\ call.posts <= 1 /\ call.discoveries <= 1
    /\ call.posts = 1 =>
         /\ call.found /\ call.discoveries = 1
         /\ call.resolved \in Addresses
         /\ call.request.url = "http://" \o call.resolved \o ":5000/alert"
    /\ call.posts = 0 => call.request = NoRequest

\* the reconnect inside sendAlert() found the server at one address, the
\* discovery for the send at another, and the POST was sent
C12_Witness ==
  /\ Returned /\ call.posts = 1 /\ call.reconnects = 1
  /\ call.earlier = "10.0.0.5" /\ call.resolved = "10.0.0.9"

\* C13 (as claimed): the request a toggle sends encodes the new alertState:
\* it differs from the request the same device sends to the same server
\* for a toggle to the other state.
C13_RequestEncodesState ==
  (Returned /\ call.posts = 1)
  => call.request # Request(call.resolved, call.name, call.pre)

\* a step that calls triggerReset()
ResetStep == pc \in {"loop", "resetHold"} /\ pc' = "off"

\* C14 (as claimed): a hold of the boot pin of at least 3000 ms is answered
\* by exactly one factory reset: when the hold ends one reset has been
\* triggered for it, and never more than one; the reset blanks the stored
\* configuration before it restarts, and the boot that follows loads an
\* unprovisioned configuration and goes to provisioning.
C14_HoldResetsOnce ==
  /\ [](hold.resets <= 1)
  /\ [][/\ ResetStep => (~eeprom' /\ resetTriggered')
        /\ (bootLow /\ ~bootLow' /\ heldFor >= ResetHoldTime) => hold.resets = 1
        /\ (pc = "off" /\ pc' # pc /\ resetTriggered) => ~config'
        /\ (pc = "setupMode" /\ pc' # pc /\ ~config)
             => (pc' = "loop" /\ ~config' /\ isBlinking')]_vars

\* C15 (as claimed): triggerReset() is called only when the boot pin has
\* been LOW without a break for at least 3000 ms.
C15_ResetOnlyAfterFullHold ==
  [][(ResetStep /\ heldFor >= 0) => heldFor >= ResetHoldTime]_vars

\* setup() found config.configured false and started the captive portal
UnprovisionedBoot == Running /\ ~config /\ ~fallback

\* C16: after a boot that loaded an unprovisioned configuration, setup()
\* goes to provisioning without an association poll or a discovery, every
\* loop tick finds the indicator blinking and uses the 300 ms interval, and
\* until the restart there is no toggle, discovery, reconnect or send and
\* alertState stays false, whatever the alert button does.
C16_UnprovisionedIgnoresButton ==
  UnprovisionedBoot =>
    /\ pc \in {"loop", "loopEnd"}
    /\ attempts = 0
    /\ ev = {}
    /\ call.phase = "none"
    /\ alertState = FALSE
    /\ isBlinking
    /\ tick.seen => (tick.blinking /\ tick.interval = blinkInterval)

\* the alert button is held while the portal runs and the LED has blinked on
C16_Witness ==
  UnprovisionedBoot /\ buttonLow /\ tick.seen /\ ledPin /\ pc = "loopEnd"

\* C17 (as claimed): two falling edges of the alert button less than
\* debounceDelay apart, both made in WifiUpServerUp, yield exactly one
\* toggleAlertState() call up to the end of the second press.
C17_CloseEdgesToggleOnce == pair.edges = 2 => pair.toggles = 1

\* C18 (as claimed): a call of discoverServer() runs at most 3 attempts of
\* at most 1000 ms, each begun with one broadcast; it returns at the first
\* reply without a further attempt, and it returns "" exactly if no reply
\* arrived in one of its wait windows.
C18_DiscoveryContract ==
  /\ disc.attempt <= DiscoveryAttempts /\ disc.waited <= DiscoveryWindow
  /\ disc.broadcasts <= DiscoveryAttempts
  /\ disc.pc = "wait" => disc.broadcasts = disc.attempt + 1
  /\ disc.pc = "done" =>
       /\ disc.result = "" <=> ~disc.arrived
       /\ disc.result # "" => disc.broadcasts = disc.attempt + 1
       /\ disc.result = "" => disc.broadcasts = DiscoveryAttempts

\* a step of loop() that runs the periodic check
PeriodicStep == pc = "loop" /\ "periodic" \in ev'

\* C19 (as claimed): the periodic check runs only with config.configured,
\* WiFi connected and more than serverCheckInterval since the last check;
\* after it serverConnected tells whether the discovery returned an
\* address: on a reply the indicator is Solid (not blinking, LED at
\* alertState), on no reply it is blinking.
C19_PeriodicCheckSetsState ==
  [][PeriodicStep =>
       /\ config /\ wifi /\ checkElapsed > serverCheckInterval
       /\ config' /\ wifi'
       /\ serverConnected' = ("reply" \in ev')
       /\ "reply" \in ev' => (~isBlinking' /\ ledPin' = alertState')
       /\ "noreply" \in ev' => isBlinking']_vars

\* C20: at every loop-iteration boundary, when the indicator is not
\* blinking, ledState and the level last written to the LED pin both equal
\* alertState.
C20_SteadyLedShowsAlert ==
  (pc = "loop" /\ ~isBlinking) => (ledState = alertState /\ ledPin = alertState)

\* a loop iteration begins with the alert on, the server up and a steady LED
C20_Witness ==
  /\ pc = "loop" /\ ~isBlinking /\ WifiUpServerUp
  /\ alertState /\ ledPin /\ ledState

====
